---- MODULE Spec2Model ----
(***************************************************************************)
(* Model of net/nimble/controller/src/ble_ll_conn_hci.c: the HCI command   *)
(* handlers of the BLE link-layer connection module (create connection,    *)
(* create connection cancel, disconnect) and the number-of-completed-      *)
(* packets event.  All handlers run in the link-layer task, one at a time, *)
(* so each handler is one atomic action.                                   *)
(*                                                                         *)
(* TLC integers are 32-bit signed, so a uint32_t is modelled as a pair of  *)
(* 16-bit limbs <<lo, hi>> and an exact (unbounded) product as three limbs.*)
(***************************************************************************)
EXTENDS Integers, Sequences, FiniteSets, TLC

\* ------------------------------------------------------------------------
\* Bounds of the model
\* ------------------------------------------------------------------------
\* Number of connection state machines in the pool.
MaxConns == 2
\* Largest completed_pkts value the environment accumulates on a record.
MaxPkts == 1
\* Number of times the OS tick counter is advanced between handlers.
MaxTicks == 3
\* Largest number of free HCI event buffers at a notifier invocation.
MaxBufs == 2
\* Records beyond two full reports in the large-registry specification.
BatchExtra == 2

\* ------------------------------------------------------------------------
\* Protocol constants (nimble/ble.h, nimble/hci_common.h, controller/*.h)
\* ------------------------------------------------------------------------
BLE_ERR_SUCCESS == 0
BLE_ERR_UNK_CONN_ID == 2
BLE_ERR_AUTH_FAIL == 5
BLE_ERR_CONN_LIMIT == 9
BLE_ERR_CMD_DISALLOWED == 12
BLE_ERR_INV_HCI_CMD_PARMS == 18
BLE_ERR_REM_USER_CONN_TERM == 19
BLE_ERR_RD_CONN_TERM_RESRCS == 20
BLE_ERR_RD_CONN_TERM_PWROFF == 21
BLE_ERR_UNSUPP_FEATURE == 26
BLE_ERR_UNIT_KEY_PAIRING == 41
BLE_ERR_CONN_PARMS == 59

BLE_HCI_SCAN_ITVL_MIN == 4
BLE_HCI_SCAN_ITVL_MAX == 16384
BLE_HCI_SCAN_WINDOW_MIN == 4
BLE_HCI_SCAN_WINDOW_MAX == 16384
BLE_HCI_INITIATOR_FILT_POLICY_MAX == 1
BLE_HCI_CONN_PEER_ADDR_MAX == 3
BLE_HCI_ADV_OWN_ADDR_PUBLIC == 0
BLE_HCI_ADV_OWN_ADDR_RANDOM == 1
BLE_HCI_ADV_OWN_ADDR_MAX == 3
BLE_HCI_CONN_ITVL_MIN == 6
BLE_HCI_CONN_ITVL_MAX == 3200
BLE_HCI_CONN_LATENCY_MAX == 499
BLE_HCI_CONN_SPVN_TIMEOUT_MIN == 10
BLE_HCI_CONN_SPVN_TIMEOUT_MAX == 3200
BLE_HCI_CONN_SPVN_TMO_UNITS == 10
BLE_LL_CONN_ITVL_USECS == 1250
BLE_LL_CONN_MAX_CONN_HANDLE == 3839
BLE_HCI_EVCODE_NUM_COMP_PKTS == 19

\* The minimum time between two number-of-completed-packets events, in
\* milliseconds (controller/ble_ll.h) and the tick rate (os/os_time.h).
BLE_LL_CFG_NUM_COMP_PKT_RATE == 2000
OS_TICKS_PER_SEC == 1000
BLE_LL_NUM_COMP_PKT_RATE ==
    (BLE_LL_CFG_NUM_COMP_PKT_RATE * OS_TICKS_PER_SEC) \div 1000

BLE_LL_CONN_STATE_IDLE == 0
BLE_LL_CONN_STATE_CREATED == 1

\* Entries per number-of-completed-packets event (the literal 60).
NumCompPktsMaxHandles == 60

\* g_ble_ll_conn_create_sm == NULL
NULL == -1
\* A byte of an event buffer that was never written.
Unwritten == -1

\* ------------------------------------------------------------------------
\* uint16_t / uint32_t arithmetic
\* ------------------------------------------------------------------------
W8 == 2^8
W16 == 2^16

\* le16toh(buf + off): buf is a byte sequence, off a C (0-based) offset.
le16toh(buf, off) == buf[off + 1] + W8 * buf[off + 2]

\* The two bytes htole16() stores for a uint16_t value.
htole16(v) == <<v % W8, (v \div W8) % W8>>

\* A uint32_t from a value below 2^31.
U32(n) == <<n % W16, (n \div W16) % W16>>

\* uint32_t addition, subtraction and comparison (modulo 2^32).
U32Add(a, b) ==
    LET s == a[1] + b[1]
    IN  <<s % W16, (a[2] + b[2] + (s \div W16)) % W16>>

U32Sub(a, b) ==
    LET d == a[1] - b[1]
    IN  <<d % W16, (a[2] - b[2] + (d \div W16)) % W16>>

U32Lt(a, b) == a[2] < b[2] \/ (a[2] = b[2] /\ a[1] < b[1])

U32Le(a, b) == a = b \/ U32Lt(a, b)

\* uint32_t multiplication by a value below 2^15: the product modulo 2^32.
U32Mul(a, c) ==
    LET lo == a[1] * c
        hi == a[2] * c + (lo \div W16)
    IN  <<lo % W16, hi % W16>>

\* Bitwise OR of two uint8_t values.
RECURSIVE BitOr(_, _)
BitOr(a, b) ==
    IF a = 0 THEN b
    ELSE IF b = 0 THEN a
    ELSE (IF a % 2 = 1 \/ b % 2 = 1 THEN 1 ELSE 0)
         + 2 * BitOr(a \div 2, b \div 2)

\* The exact (48-bit, three limb) product and comparison, for reference.
Ex48(n) == <<n % W16, (n \div W16) % W16, 0>>

Ex48Mul(a, c) ==
    LET l0 == a[1] * c
        l1 == a[2] * c + (l0 \div W16)
        l2 == a[3] * c + (l1 \div W16)
    IN  <<l0 % W16, l1 % W16, l2 % W16>>

Ex48Le(a, b) ==
    \/ a[3] < b[3]
    \/ a[3] = b[3] /\ a[2] < b[2]
    \/ a[3] = b[3] /\ a[2] = b[2] /\ a[1] <= b[1]

\* ------------------------------------------------------------------------
\* State
\* ------------------------------------------------------------------------
VARIABLES
    conn,                           \* struct ble_ll_conn_sm, by conn_handle
    g_ble_ll_conn_active_list,      \* SLIST of handles, head first
    g_ble_ll_conn_free_list,        \* STAILQ of handles, head first
    g_ble_ll_conn_create_sm,        \* handle being created, or NULL
    scan_enabled,                   \* ble_ll_scan_enabled()
    os_time,                        \* os_time_get(), a uint32_t
    g_ble_ll_next_num_comp_pkt_evt, \* a uint32_t
    halted,                         \* an assert() has stopped the controller
    op,                             \* the handler that ran last
    arg,                            \* its inputs
    rc,                             \* its return code
    calls,                          \* the collaborators it invoked
    sent,                           \* the event buffers it handed to the host
    hist                            \* history: ticks taken, disconnects done

vars == <<conn, g_ble_ll_conn_active_list, g_ble_ll_conn_free_list,
          g_ble_ll_conn_create_sm, scan_enabled, os_time,
          g_ble_ll_next_num_comp_pkt_evt, halted, op, arg, rc, calls, sent,
          hist>>

registry == <<conn, g_ble_ll_conn_active_list, g_ble_ll_conn_free_list,
              g_ble_ll_conn_create_sm, scan_enabled>>

clock == <<os_time, g_ble_ll_next_num_comp_pkt_evt>>

Handles == DOMAIN conn

\* A connection state machine as ble_ll_conn_sm_start leaves it.
ConnSmInit ==
    [conn_state |-> BLE_LL_CONN_STATE_IDLE,
     completed_pkts |-> 0,
     txq_nonempty |-> FALSE,
     disconnect_reason |-> 0,
     terminate_pending |-> FALSE]

NoArg == [cmdbuf |-> <<>>, scan_rc |-> 0, pdu_ok |-> TRUE, avail |-> 0, dt |-> 0,
          hop_inc |-> 0, master_sca |-> 0]

NoCalls == [req_pdu_make |-> FALSE, scan_initiator_start |-> FALSE,
            scan_sm_stop |-> FALSE, conn_end |-> NULL, conn_end_reason |-> 0,
            terminate_start |-> NULL, rate_limited |-> FALSE,
            get_failed |-> FALSE, req_pdu_last |-> NULL, bufs_got |-> 0]

NoHist == [ticks |-> 0, disconnected |-> {}, report_time |-> <<>>]

\* Membership and removal on the two lists.
InList(list, h) == \E i \in 1..Len(list) : list[i] = h

ListRemove(list, h) == SelectSeq(list, LAMBDA x : x # h)

\* ------------------------------------------------------------------------
\* ble_ll_conn_create
\* ------------------------------------------------------------------------
\* struct hci_create_conn as parsed from the 25 command bytes.
hci_create_conn(cmdbuf) ==
    [scan_itvl |-> le16toh(cmdbuf, 0),
     scan_window |-> le16toh(cmdbuf, 2),
     filter_policy |-> cmdbuf[5],
     peer_addr_type |-> cmdbuf[6],
     own_addr_type |-> cmdbuf[13],
     conn_itvl_min |-> le16toh(cmdbuf, 13),
     conn_itvl_max |-> le16toh(cmdbuf, 15),
     conn_latency |-> le16toh(cmdbuf, 17),
     supervision_timeout |-> le16toh(cmdbuf, 19),
     min_ce_len |-> le16toh(cmdbuf, 21),
     max_ce_len |-> le16toh(cmdbuf, 23)]

\* Already creating a connection, or the scanner already enabled.
CreateDisallowedNoPendingCheck == scan_enabled

CreateDisallowed ==
    g_ble_ll_conn_create_sm # NULL \/ scan_enabled

ScanParmsInvalid(hcc) ==
    \/ hcc.scan_itvl < BLE_HCI_SCAN_ITVL_MIN
    \/ hcc.scan_itvl > BLE_HCI_SCAN_ITVL_MAX
    \/ hcc.scan_window < BLE_HCI_SCAN_WINDOW_MIN
    \/ hcc.scan_window > BLE_HCI_SCAN_WINDOW_MAX
    \/ hcc.scan_itvl < hcc.scan_window

FilterPolicyInvalid(hcc) ==
    hcc.filter_policy > BLE_HCI_INITIATOR_FILT_POLICY_MAX

PeerAddrTypeInvalid(hcc) ==
    hcc.filter_policy = 0 /\ hcc.peer_addr_type > BLE_HCI_CONN_PEER_ADDR_MAX

OwnAddrTypeInvalid(hcc) ==
    hcc.own_addr_type > BLE_HCI_ADV_OWN_ADDR_MAX

ConnItvlInvalid(hcc) ==
    \/ hcc.conn_itvl_min > hcc.conn_itvl_max
    \/ hcc.conn_itvl_min < BLE_HCI_CONN_ITVL_MIN
    \/ hcc.conn_itvl_min > BLE_HCI_CONN_ITVL_MAX
    \/ hcc.conn_latency > BLE_HCI_CONN_LATENCY_MAX

SpvnTmoInvalid(hcc) ==
    \/ hcc.supervision_timeout < BLE_HCI_CONN_SPVN_TIMEOUT_MIN
    \/ hcc.supervision_timeout > BLE_HCI_CONN_SPVN_TIMEOUT_MAX

\* spvn_tmo_usecs and min_spvn_tmo_usecs, both uint32_t.
spvn_tmo_usecs(hcc) ==
    U32Mul(U32(hcc.supervision_timeout), BLE_HCI_CONN_SPVN_TMO_UNITS * 1000)

min_spvn_tmo_usecs(hcc) ==
    U32Mul(U32Mul(U32Mul(U32(hcc.conn_itvl_max), 2), BLE_LL_CONN_ITVL_USECS),
           1 + hcc.conn_latency)

SpvnTmoTooShort(hcc) ==
    U32Le(spvn_tmo_usecs(hcc), min_spvn_tmo_usecs(hcc))

CeLenInvalid(hcc) == hcc.min_ce_len > hcc.max_ce_len

\* The parameter checks in the order the handler makes them; each one
\* returns BLE_ERR_INV_HCI_CMD_PARMS.
CreateParmsInvalid(hcc) ==
    IF ScanParmsInvalid(hcc) THEN TRUE
    ELSE IF FilterPolicyInvalid(hcc) THEN TRUE
    ELSE IF PeerAddrTypeInvalid(hcc) THEN TRUE
    ELSE IF OwnAddrTypeInvalid(hcc) THEN TRUE
    ELSE IF ConnItvlInvalid(hcc) THEN TRUE
    ELSE IF SpvnTmoInvalid(hcc) THEN TRUE
    ELSE IF SpvnTmoTooShort(hcc) THEN TRUE
    ELSE CeLenInvalid(hcc)

\* ble_ll_conn_sm_get: the head of the free list, or NULL.
ble_ll_conn_sm_get ==
    IF g_ble_ll_conn_free_list = <<>> THEN NULL
    ELSE Head(g_ble_ll_conn_free_list)

\* ble_ll_conn_req_pdu_make: the asserts it can fail (no PDU buffer, or an
\* own address type that is neither public nor random).
ReqPduAsserts(own_addr_type, pdu_ok) ==
    \/ ~pdu_ok
    \/ /\ own_addr_type # BLE_HCI_ADV_OWN_ADDR_PUBLIC
       /\ own_addr_type # BLE_HCI_ADV_OWN_ADDR_RANDOM

\* The last byte of the connect request (dptr[21], byte 35 of the PDU) and
\* the last byte of the connection complete event (evbuf[20]).
ConnReqLastByte(hop_inc, master_sca) == BitOr(hop_inc, master_sca) % W8

ConnCompLastByte(master_sca) == master_sca % W8

\* The free list after a failed scan start puts the record back.
RollbackFreeLeak(free, connsm) == free

RollbackFree(free, connsm) == Append(free, connsm)

\* The active list after a failed scan start removes the record.
RollbackActiveKeep(active, connsm) == active

RollbackActive(active, connsm) == ListRemove(active, connsm)

\* A handler returning `code` with the registry untouched.
Return(code) ==
    /\ rc' = code
    /\ calls' = NoCalls
    /\ UNCHANGED <<registry, halted>>

ble_ll_conn_create(cmdbuf, scan_rc, pdu_ok, link) ==
    LET hcc == hci_create_conn(cmdbuf)
        connsm == ble_ll_conn_sm_get
        \* ble_ll_conn_master_init and ble_ll_conn_sm_start
        started == [conn EXCEPT ![connsm] = ConnSmInit]
        active == <<connsm>> \o g_ble_ll_conn_active_list
        free == Tail(g_ble_ll_conn_free_list)
    IN
    /\ op' = "create"
    /\ arg' = [NoArg EXCEPT !.cmdbuf = cmdbuf, !.scan_rc = scan_rc,
                            !.pdu_ok = pdu_ok, !.hop_inc = link.hop_inc,
                            !.master_sca = link.master_sca]
    /\ sent' = <<>>
    /\ UNCHANGED <<clock, hist>>
    /\ IF CreateDisallowed THEN Return(BLE_ERR_CMD_DISALLOWED)
       ELSE IF CreateParmsInvalid(hcc) THEN Return(BLE_ERR_INV_HCI_CMD_PARMS)
       ELSE IF connsm = NULL THEN Return(BLE_ERR_CONN_LIMIT)
       ELSE IF ReqPduAsserts(hcc.own_addr_type, pdu_ok) THEN
            \* assert() fails inside ble_ll_conn_req_pdu_make: no return
            /\ halted' = TRUE
            /\ rc' = NULL
            /\ conn' = started
            /\ g_ble_ll_conn_active_list' = active
            /\ g_ble_ll_conn_free_list' = free
            /\ calls' = [NoCalls EXCEPT !.req_pdu_make = TRUE]
            /\ UNCHANGED <<g_ble_ll_conn_create_sm, scan_enabled>>
       ELSE IF scan_rc # BLE_ERR_SUCCESS THEN
            /\ rc' = scan_rc
            /\ conn' = started
            /\ g_ble_ll_conn_active_list' = RollbackActive(active, connsm)
            /\ g_ble_ll_conn_free_list' = RollbackFree(free, connsm)
            /\ calls' = [NoCalls EXCEPT
                   !.req_pdu_make = TRUE,
                   !.req_pdu_last = ConnReqLastByte(link.hop_inc,
                                                    link.master_sca),
                   !.scan_initiator_start = TRUE]
            /\ UNCHANGED <<g_ble_ll_conn_create_sm, scan_enabled, halted>>
       ELSE
            /\ rc' = scan_rc
            /\ conn' = started
            /\ g_ble_ll_conn_active_list' = active
            /\ g_ble_ll_conn_free_list' = free
            /\ g_ble_ll_conn_create_sm' = connsm
            /\ scan_enabled' = TRUE
            /\ calls' = [NoCalls EXCEPT
                   !.req_pdu_make = TRUE,
                   !.req_pdu_last = ConnReqLastByte(link.hop_inc,
                                                    link.master_sca),
                   !.scan_initiator_start = TRUE]
            /\ UNCHANGED halted

\* ------------------------------------------------------------------------
\* ble_ll_conn_end (controller/ble_ll_conn.c): tear a record down
\* ------------------------------------------------------------------------
ConnEndConn(c, connsm) ==
    [c EXCEPT ![connsm].conn_state = BLE_LL_CONN_STATE_IDLE]

ConnEndActive(active, connsm) == ListRemove(active, connsm)

ConnEndFree(free, connsm) == Append(free, connsm)

ConnEndHist(h, connsm) ==
    [h EXCEPT !.disconnected = @ \ {connsm}]

\* ------------------------------------------------------------------------
\* ble_ll_conn_create_cancel
\* ------------------------------------------------------------------------
CancelAllowedAnyState == g_ble_ll_conn_create_sm # NULL

CancelAllowed ==
    /\ g_ble_ll_conn_create_sm # NULL
    /\ conn[g_ble_ll_conn_create_sm].conn_state = BLE_LL_CONN_STATE_IDLE

ble_ll_conn_create_cancel ==
    LET connsm == g_ble_ll_conn_create_sm
    IN
    /\ op' = "cancel"
    /\ arg' = NoArg
    /\ sent' = <<>>
    /\ UNCHANGED clock
    /\ IF CancelAllowed THEN
            /\ g_ble_ll_conn_create_sm' = NULL
            /\ scan_enabled' = FALSE
            /\ conn' = ConnEndConn(conn, connsm)
            /\ g_ble_ll_conn_active_list' =
                   ConnEndActive(g_ble_ll_conn_active_list, connsm)
            /\ g_ble_ll_conn_free_list' =
                   ConnEndFree(g_ble_ll_conn_free_list, connsm)
            /\ hist' = ConnEndHist(hist, connsm)
            /\ calls' = [NoCalls EXCEPT !.scan_sm_stop = TRUE,
                                        !.conn_end = connsm,
                                        !.conn_end_reason = BLE_ERR_UNK_CONN_ID]
            /\ rc' = BLE_ERR_SUCCESS
            /\ UNCHANGED halted
       ELSE
            /\ Return(BLE_ERR_CMD_DISALLOWED)
            /\ UNCHANGED hist

\* ------------------------------------------------------------------------
\* ble_ll_conn_hci_disconnect_cmd
\* ------------------------------------------------------------------------
LegalReasons ==
    {BLE_ERR_AUTH_FAIL, BLE_ERR_REM_USER_CONN_TERM,
     BLE_ERR_RD_CONN_TERM_RESRCS, BLE_ERR_RD_CONN_TERM_PWROFF,
     BLE_ERR_UNSUPP_FEATURE, BLE_ERR_UNIT_KEY_PAIRING, BLE_ERR_CONN_PARMS}

\* The cases of the switch on the reason.
ReasonValidOrZero(reason) == reason \in LegalReasons \cup {0}

ReasonValid(reason) == reason \in LegalReasons

HandleValid(handle) == handle <= BLE_LL_CONN_MAX_CONN_HANDLE

\* ble_ll_conn_find_active_conn: the active record with this handle.
ble_ll_conn_find_active_conn(handle) ==
    IF handle \in Handles /\ InList(g_ble_ll_conn_active_list, handle)
    THEN handle
    ELSE NULL

\* "Do not allow command if we are in process of disconnecting".
DisconnectInProgressNever(connsm) == FALSE

DisconnectInProgress(connsm) == conn[connsm].disconnect_reason # 0

ble_ll_conn_hci_disconnect_cmd(cmdbuf) ==
    LET handle == le16toh(cmdbuf, 0)
        reason == cmdbuf[3]
        connsm == ble_ll_conn_find_active_conn(handle)
    IN
    /\ op' = "disconnect"
    /\ arg' = [NoArg EXCEPT !.cmdbuf = cmdbuf]
    /\ sent' = <<>>
    /\ UNCHANGED clock
    /\ IF ~HandleValid(handle) \/ ~ReasonValid(reason) THEN
            Return(BLE_ERR_INV_HCI_CMD_PARMS) /\ UNCHANGED hist
       ELSE IF connsm = NULL THEN
            Return(BLE_ERR_UNK_CONN_ID) /\ UNCHANGED hist
       ELSE IF DisconnectInProgress(connsm) THEN
            Return(BLE_ERR_CMD_DISALLOWED) /\ UNCHANGED hist
       ELSE IF conn[connsm].terminate_pending THEN
            \* assert(!IS_PENDING_CTRL_PROC_M(...)) fails: no return
            /\ halted' = TRUE
            /\ rc' = NULL
            /\ calls' = NoCalls
            /\ UNCHANGED <<registry, hist>>
       ELSE
            \* record the reason, ble_ll_ctrl_terminate_start
            /\ conn' = [conn EXCEPT ![connsm].disconnect_reason = reason,
                                    ![connsm].terminate_pending = TRUE]
            /\ hist' = [hist EXCEPT !.disconnected = @ \cup {connsm}]
            /\ calls' = [NoCalls EXCEPT !.terminate_start = connsm]
            /\ rc' = BLE_ERR_SUCCESS
            /\ UNCHANGED <<g_ble_ll_conn_active_list, g_ble_ll_conn_free_list,
                           g_ble_ll_conn_create_sm, scan_enabled, halted>>

\* ------------------------------------------------------------------------
\* ble_ll_conn_num_comp_pkts_event_send
\* ------------------------------------------------------------------------
\* Size of an HCI event buffer ("should fit at least 255 bytes").
EvBufLen == 255

\* os_memblock_get: a buffer whose bytes are not yet written.
os_memblock_get == [i \in 1..EvBufLen |-> Unwritten]

\* htole16(evbuf + off, v) and evbuf[off] = v.
Put16(buf, off, v) ==
    [buf EXCEPT ![off + 1] = htole16(v)[1], ![off + 2] = htole16(v)[2]]

Put8(buf, off, v) == [buf EXCEPT ![off + 1] = v % W8]

\* memmove(buf + dst, buf + src, n): the n bytes from offset src, as they
\* were, replace the n bytes from offset dst.
memmoveNone(buf, dst, src, n) == buf

memmove(buf, dst, src, n) ==
    SubSeq(buf, 1, dst) \o SubSeq(buf, src + 1, src + n)
        \o SubSeq(buf, dst + n + 1, Len(buf))

\* The bytes ble_ll_hci_event_send passes on: the two header bytes and the
\* evbuf[1] parameter bytes after them.
ble_ll_hci_event_send(evbuf) == SubSeq(evbuf, 1, 2 + evbuf[2])

\* The rate limit check at entry.
RateLimited(now) ==
    U32Lt(U32Sub(g_ble_ll_next_num_comp_pkt_evt, now),
          U32(BLE_LL_NUM_COMP_PKT_RATE))

\* "connections that we have sent a connection complete event and that
\* either has packets enqueued or has completed packets".
EligibleAlways(c) == TRUE

Eligible(c) ==
    /\ c.conn_state # BLE_LL_CONN_STATE_IDLE
    /\ (c.completed_pkts # 0 \/ c.txq_nonempty)

\* The event is full: send it and start a new one.
EventFullOffByOne(handles) == handles = NumCompPktsMaxHandles + 1

EventFull(handles) == handles = NumCompPktsMaxHandles

\* The locals of the function before the loop.
NumCompPktsStart(avail) ==
    [conn |-> conn, evbuf |-> <<>>, handles |-> 0, handle_ptr |-> 0,
     comp_pkt_ptr |-> 0, event_sent |-> FALSE, sent |-> <<>>,
     avail |-> avail, get_failed |-> FALSE]

\* The header bytes of an event holding st.handles entries.
NumCompPktsHeader(st) ==
    Put8(Put8(Put8(st.evbuf, 0, BLE_HCI_EVCODE_NUM_COMP_PKTS),
              1, (st.handles * 2 * 2) + 1),
         2, st.handles)

\* One eligible record, with an event buffer in hand: add handle and count,
\* clear the count, and send the event when it is full.
NumCompPktsAdd(st, connsm) ==
    LET buf == Put16(Put16(st.evbuf, st.handle_ptr, connsm),
                     st.comp_pkt_ptr, st.conn[connsm].completed_pkts)
        st1 == [st EXCEPT !.evbuf = buf,
                          !.conn[connsm].completed_pkts = 0,
                          !.handle_ptr = @ + 2,
                          !.comp_pkt_ptr = @ + 2,
                          !.handles = (@ + 1) % W8]
    IN  IF EventFull(st1.handles)
        THEN [st1 EXCEPT !.sent = Append(@,
                             ble_ll_hci_event_send(NumCompPktsHeader(st1))),
                         !.evbuf = <<>>,
                         !.handles = 0,
                         !.event_sent = TRUE]
        ELSE st1

\* The body of the loop for one record of the active list; `break` is
\* the get_failed flag, which ends the iteration.
NumCompPktsVisitClearEarly(st, connsm) ==
    IF st.get_failed \/ ~Eligible(st.conn[connsm]) THEN st
    ELSE IF st.evbuf # <<>> THEN NumCompPktsAdd(st, connsm)
    ELSE IF st.avail = 0
         THEN [st EXCEPT !.get_failed = TRUE,
                         !.conn[connsm].completed_pkts = 0]
    ELSE NumCompPktsAdd(
             [st EXCEPT !.evbuf = os_memblock_get,
                        !.avail = @ - 1,
                        !.handles = 0,
                        !.handle_ptr = 3,
                        !.comp_pkt_ptr = 3 + 2 * NumCompPktsMaxHandles],
             connsm)

NumCompPktsVisit(st, connsm) ==
    IF st.get_failed \/ ~Eligible(st.conn[connsm]) THEN st
    ELSE IF st.evbuf # <<>> THEN NumCompPktsAdd(st, connsm)
    ELSE IF st.avail = 0 THEN [st EXCEPT !.get_failed = TRUE]
    ELSE NumCompPktsAdd(
             [st EXCEPT !.evbuf = os_memblock_get,
                        !.avail = @ - 1,
                        !.handles = 0,
                        !.handle_ptr = 3,
                        !.comp_pkt_ptr = 3 + 2 * NumCompPktsMaxHandles],
             connsm)

\* SLIST_FOREACH over list[lo..hi], in list order (the range is split in
\* halves to keep the evaluation shallow).
RECURSIVE NumCompPktsLoop(_, _, _, _)
NumCompPktsLoop(list, lo, hi, st) ==
    IF lo > hi THEN st
    ELSE IF lo = hi THEN NumCompPktsVisit(st, list[lo])
    ELSE LET mid == (lo + hi) \div 2
             left == NumCompPktsLoop(list, lo, mid, st)
         IN  IF left.get_failed THEN left
             ELSE NumCompPktsLoop(list, mid + 1, hi, left)

\* "Send event if there is an event to send".
NumCompPktsFinish(st) ==
    IF st.evbuf = <<>> THEN st
    ELSE LET hdr == NumCompPktsHeader(st)
             buf == IF st.handles < NumCompPktsMaxHandles
                    THEN memmove(hdr, st.handle_ptr,
                                 3 + NumCompPktsMaxHandles * 2,
                                 st.handles * 2)
                    ELSE hdr
         IN  [st EXCEPT !.sent = Append(@, ble_ll_hci_event_send(buf)),
                        !.event_sent = TRUE]

\* The next eligible time once an event was sent: os_time_get() + rate.
NextEvtTime(now) == U32Add(now, U32(BLE_LL_NUM_COMP_PKT_RATE))

\* The gate at the end of the function: moved only "if (event_sent)".
GateAfterAlways(st, now) == NextEvtTime(now)

GateAfter(st, now) ==
    IF st.event_sent THEN NextEvtTime(now)
    ELSE g_ble_ll_next_num_comp_pkt_evt

\* `avail` event buffers are free; dt ticks pass between the rate limit
\* check and the end of the function.
ble_ll_conn_num_comp_pkts_event_send(avail, dt) ==
    LET st == NumCompPktsFinish(
                  NumCompPktsLoop(g_ble_ll_conn_active_list, 1,
                                  Len(g_ble_ll_conn_active_list),
                                  NumCompPktsStart(avail)))
        end_time == U32Add(os_time, U32(dt))
    IN
    /\ op' = "num_comp_pkts"
    /\ rc' = BLE_ERR_SUCCESS
    /\ UNCHANGED <<g_ble_ll_conn_active_list, g_ble_ll_conn_free_list,
                   g_ble_ll_conn_create_sm, scan_enabled, halted>>
    /\ IF RateLimited(os_time) THEN
            /\ dt = 0
            /\ arg' = [NoArg EXCEPT !.avail = avail]
            /\ calls' = [NoCalls EXCEPT !.rate_limited = TRUE]
            /\ sent' = <<>>
            /\ UNCHANGED <<conn, clock, hist>>
       ELSE
            /\ arg' = [NoArg EXCEPT !.avail = avail, !.dt = dt]
            /\ calls' = [NoCalls EXCEPT !.get_failed = st.get_failed,
                                        !.bufs_got = avail - st.avail]
            /\ conn' = st.conn
            /\ sent' = st.sent
            /\ os_time' = end_time
            /\ g_ble_ll_next_num_comp_pkt_evt' = GateAfter(st, end_time)
            /\ hist' = [hist EXCEPT
                   !.ticks = @ + dt,
                   !.report_time = IF st.event_sent THEN os_time ELSE @]

\* ------------------------------------------------------------------------
\* The rest of the controller, as far as it moves the state the handlers
\* read: the initiator completing a connection, a connection ending, the
\* host's own scan enable, transmit completions, and the OS tick.
\* ------------------------------------------------------------------------
Env(name) ==
    /\ op' = name
    /\ arg' = NoArg
    /\ rc' = BLE_ERR_SUCCESS
    /\ calls' = NoCalls
    /\ sent' = <<>>
    /\ UNCHANGED halted

\* The connect request went out: the pending record leaves the idle state.
ConnCreated ==
    /\ g_ble_ll_conn_create_sm # NULL
    /\ conn[g_ble_ll_conn_create_sm].conn_state = BLE_LL_CONN_STATE_IDLE
    /\ conn' = [conn EXCEPT ![g_ble_ll_conn_create_sm].conn_state =
                                BLE_LL_CONN_STATE_CREATED]
    /\ Env("conn_created")
    /\ UNCHANGED <<g_ble_ll_conn_active_list, g_ble_ll_conn_free_list,
                   g_ble_ll_conn_create_sm, scan_enabled, clock, hist>>

\* The creation is confirmed: the pending reference is cleared and the
\* initiator scan stopped.
InitiatorDone ==
    /\ g_ble_ll_conn_create_sm # NULL
    /\ conn[g_ble_ll_conn_create_sm].conn_state # BLE_LL_CONN_STATE_IDLE
    /\ g_ble_ll_conn_create_sm' = NULL
    /\ scan_enabled' = FALSE
    /\ Env("initiator_done")
    /\ UNCHANGED <<conn, g_ble_ll_conn_active_list, g_ble_ll_conn_free_list,
                   clock, hist>>

\* An established connection ends (termination completes, or it is lost).
ConnEnd(connsm) ==
    /\ InList(g_ble_ll_conn_active_list, connsm)
    /\ conn[connsm].conn_state # BLE_LL_CONN_STATE_IDLE
    /\ g_ble_ll_conn_create_sm # connsm
    /\ conn' = ConnEndConn(conn, connsm)
    /\ g_ble_ll_conn_active_list' =
           ConnEndActive(g_ble_ll_conn_active_list, connsm)
    /\ g_ble_ll_conn_free_list' = ConnEndFree(g_ble_ll_conn_free_list, connsm)
    /\ hist' = ConnEndHist(hist, connsm)
    /\ Env("conn_end")
    /\ UNCHANGED <<g_ble_ll_conn_create_sm, scan_enabled, clock>>

\* The host enables or disables scanning (LE Set Scan Enable).
HostScan ==
    /\ scan_enabled' = ~scan_enabled
    /\ Env("host_scan")
    /\ UNCHANGED <<conn, g_ble_ll_conn_active_list, g_ble_ll_conn_free_list,
                   g_ble_ll_conn_create_sm, clock, hist>>

\* A packet of an established connection is acknowledged.
PktCompleted(connsm) ==
    /\ InList(g_ble_ll_conn_active_list, connsm)
    /\ conn[connsm].conn_state # BLE_LL_CONN_STATE_IDLE
    /\ conn[connsm].completed_pkts < MaxPkts
    /\ conn' = [conn EXCEPT ![connsm].completed_pkts = @ + 1]
    /\ Env("pkt_completed")
    /\ UNCHANGED <<g_ble_ll_conn_active_list, g_ble_ll_conn_free_list,
                   g_ble_ll_conn_create_sm, scan_enabled, clock, hist>>

\* The transmit queue of an established connection fills or drains.
TxQueue(connsm) ==
    /\ InList(g_ble_ll_conn_active_list, connsm)
    /\ conn[connsm].conn_state # BLE_LL_CONN_STATE_IDLE
    /\ conn' = [conn EXCEPT ![connsm].txq_nonempty = ~@]
    /\ Env("txq")
    /\ UNCHANGED <<g_ble_ll_conn_active_list, g_ble_ll_conn_free_list,
                   g_ble_ll_conn_create_sm, scan_enabled, clock, hist>>

\* The OS tick counter advances (and wraps at 2^32).
TickSteps == {1, BLE_LL_NUM_COMP_PKT_RATE - 1}

Tick(d) ==
    /\ hist.ticks < MaxTicks
    /\ os_time' = U32Add(os_time, U32(d))
    /\ hist' = [hist EXCEPT !.ticks = @ + 1]
    /\ Env("tick")
    /\ UNCHANGED <<registry, g_ble_ll_next_num_comp_pkt_evt>>

\* ------------------------------------------------------------------------
\* Command buffers the host sends
\* ------------------------------------------------------------------------
\* The 25 parameter bytes of LE Create Connection.
CreateCmd(f) ==
    htole16(f.scan_itvl) \o htole16(f.scan_window)
        \o <<f.filter_policy, f.peer_addr_type>>
        \o <<1, 2, 3, 4, 5, 6>>
        \o <<f.own_addr_type>>
        \o htole16(f.conn_itvl_min) \o htole16(f.conn_itvl_max)
        \o htole16(f.conn_latency) \o htole16(f.supervision_timeout)
        \o htole16(f.min_ce_len) \o htole16(f.max_ce_len)

\* A command every check accepts: interval 40 (50 ms), timeout 11 (110 ms).
GoodCreate ==
    [scan_itvl |-> 16, scan_window |-> 16, filter_policy |-> 0,
     peer_addr_type |-> 0, own_addr_type |-> BLE_HCI_ADV_OWN_ADDR_PUBLIC,
     conn_itvl_min |-> 24, conn_itvl_max |-> 40, conn_latency |-> 0,
     supervision_timeout |-> 11, min_ce_len |-> 0, max_ce_len |-> 0]

\* GoodCreate with one or two fields changed: the other supported own
\* address type, an own address type that passes the check but has no
\* address source, a timeout equal to the minimum, a too large interval
\* minimum, and a minimum that overflows 32 bits.
CreateFields ==
    {GoodCreate,
     [GoodCreate EXCEPT !.own_addr_type = BLE_HCI_ADV_OWN_ADDR_RANDOM],
     [GoodCreate EXCEPT !.own_addr_type = 2],
     [GoodCreate EXCEPT !.supervision_timeout = 10],
     [GoodCreate EXCEPT !.conn_itvl_min = 41],
     [GoodCreate EXCEPT !.conn_itvl_min = 6, !.conn_itvl_max = 3436,
                        !.conn_latency = 499, !.supervision_timeout = 10]}

CreateCmds == {CreateCmd(f) : f \in CreateFields}

\* The arithmetic fields in every combination, the others one at a time.
WideCreateFields ==
    {[GoodCreate EXCEPT !.conn_itvl_min = imin, !.conn_itvl_max = imax,
                        !.conn_latency = lat, !.supervision_timeout = tmo] :
        imin \in {5, 6, 3200, 3201},
        imax \in {6, 40, 3200, 3436, 40000, 65535},
        lat \in {0, 1, 42, 499, 500},
        tmo \in {9, 10, 11, 3200, 3201}}
    \cup
    {[GoodCreate EXCEPT !.scan_itvl = si, !.scan_window = sw,
                        !.filter_policy = fp, !.peer_addr_type = pt] :
        si \in {3, 4, 16384, 16385}, sw \in {3, 4, 16384, 16385},
        fp \in {0, 1, 2}, pt \in {0, 3, 4, 255}}
    \cup
    {[GoodCreate EXCEPT !.own_addr_type = own, !.min_ce_len = cmin,
                        !.max_ce_len = cmax] :
        own \in {0, 1, 2, 3, 4, 255}, cmin \in {0, 1, 65535},
        cmax \in {0, 1, 65535}}
    \cup
    {[GoodCreate EXCEPT !.scan_itvl = 3, !.scan_window = 3],
     [GoodCreate EXCEPT !.scan_window = 17],
     [GoodCreate EXCEPT !.filter_policy = 1, !.peer_addr_type = 4]}
    \cup CreateFields

WideCreateCmds == {CreateCmd(f) : f \in WideCreateFields}

\* What ble_ll_scan_initiator_start can return.
BLE_ERR_HW_FAIL == 3

ScanStartRcs == {BLE_ERR_SUCCESS, BLE_ERR_HW_FAIL}

\* The 3 parameter bytes of Disconnect.
DisconnectCmd(handle, reason) == htole16(handle) \o <<reason>>

DisconnectHandles ==
    (0..MaxConns) \cup {BLE_LL_CONN_MAX_CONN_HANDLE + 1}

DisconnectReasons ==
    {0, BLE_ERR_AUTH_FAIL, BLE_ERR_REM_USER_CONN_TERM, W8 - 1}

DisconnectCmds ==
    {DisconnectCmd(h, r) : h \in DisconnectHandles, r \in DisconnectReasons}

\* The hop increment and master sleep clock accuracy that
\* ble_ll_conn_master_init gives a new record: one typical pair, and every
\* pair of a 5-bit increment and a 3-bit accuracy class.
MasterLinks == {[hop_inc |-> 5, master_sca |-> 1]}

AllLinks == [hop_inc : 0..31, master_sca : 0..7]

\* ------------------------------------------------------------------------
\* Actions and specifications
\* ------------------------------------------------------------------------
Create(cmds, pdus, links) ==
    \E cmdbuf \in cmds, scan_rc \in ScanStartRcs, pdu_ok \in pdus,
       link \in links :
        ~halted /\ ble_ll_conn_create(cmdbuf, scan_rc, pdu_ok, link)

Cancel == ~halted /\ ble_ll_conn_create_cancel

Disconnect ==
    \E cmdbuf \in DisconnectCmds :
        ~halted /\ ble_ll_conn_hci_disconnect_cmd(cmdbuf)

NumCompPkts ==
    \E avail \in 0..MaxBufs, dt \in {0, 1} :
        /\ ~halted
        /\ hist.ticks + dt <= MaxTicks
        /\ ble_ll_conn_num_comp_pkts_event_send(avail, dt)

\* The notifier polled with no buffer or with buffers to spare, the tick
\* counter standing still while it runs; and a whole rate interval passing.
Report ==
    \E avail \in {0, MaxBufs} :
        ~halted /\ ble_ll_conn_num_comp_pkts_event_send(avail, 0)

Elapse == ~halted /\ Tick(BLE_LL_NUM_COMP_PKT_RATE)

ConnCreatedStep == ~halted /\ ConnCreated

InitiatorDoneStep == ~halted /\ InitiatorDone

HostScanStep == ~halted /\ HostScan

ConnEndStep == \E connsm \in Handles : ~halted /\ ConnEnd(connsm)

PktCompletedStep == \E connsm \in Handles : ~halted /\ PktCompleted(connsm)

TxQueueStep == \E connsm \in Handles : ~halted /\ TxQueue(connsm)

Clock == \E d \in TickSteps : ~halted /\ Tick(d)

\* The state after ble_ll_conn_module_init: every record on the free list.
InitRegistry(n) ==
    /\ conn = [h \in 0..(n - 1) |-> ConnSmInit]
    /\ g_ble_ll_conn_active_list = <<>>
    /\ g_ble_ll_conn_free_list = [i \in 1..n |-> i - 1]
    /\ g_ble_ll_conn_create_sm = NULL
    /\ scan_enabled = FALSE

InitGhost ==
    /\ halted = FALSE
    /\ op = "boot"
    /\ arg = NoArg
    /\ rc = BLE_ERR_SUCCESS
    /\ calls = NoCalls
    /\ sent = <<>>
    /\ hist = NoHist

\* The HCI command handlers with the controller around them.
Init ==
    /\ InitRegistry(MaxConns)
    /\ os_time = U32(1)
    /\ g_ble_ll_next_num_comp_pkt_evt = U32(0)
    /\ InitGhost

Next ==
    \/ Create(CreateCmds, BOOLEAN, MasterLinks)
    \/ Cancel
    \/ Disconnect
    \/ ConnCreatedStep
    \/ InitiatorDoneStep
    \/ HostScanStep
    \/ ConnEndStep

Spec == Init /\ [][Next]_vars

\* One create connection command, from a wide set, on the initial registry.
NextValidate == op = "boot" /\ Create(WideCreateCmds, {TRUE}, MasterLinks)

SpecValidate == Init /\ [][NextValidate]_vars

\* The completed-packets notifier with connections coming and going, packets
\* completing and the tick counter advancing (also across its wraparound).
StartTimes == {U32(0), <<W16 - 2, W16 - 1>>}

InitNotify ==
    /\ InitRegistry(MaxConns)
    /\ os_time \in StartTimes
    /\ g_ble_ll_next_num_comp_pkt_evt = U32(0)
    /\ InitGhost

NextNotify ==
    \/ Create({CreateCmd(GoodCreate)}, {TRUE}, MasterLinks)
    \/ Cancel
    \/ ConnCreatedStep
    \/ InitiatorDoneStep
    \/ ConnEndStep
    \/ PktCompletedStep
    \/ TxQueueStep
    \/ Clock
    \/ NumCompPkts

SpecNotify == InitNotify /\ [][NextNotify]_vars

\* The notifier among creations and cancellations, polled once per rate
\* interval or several times within a tick, from tick 0 on.
InitReport ==
    /\ InitRegistry(MaxConns)
    /\ os_time = U32(0)
    /\ g_ble_ll_next_num_comp_pkt_evt = U32(0)
    /\ InitGhost

NextReport ==
    \/ Create({CreateCmd(GoodCreate)}, {TRUE}, MasterLinks)
    \/ Cancel
    \/ ConnCreatedStep
    \/ InitiatorDoneStep
    \/ PktCompletedStep
    \/ TxQueueStep
    \/ Elapse
    \/ Report

SpecReport == InitReport /\ [][NextReport]_vars

\* One valid create connection command on the initial registry, for every
\* hop increment and sleep clock accuracy the new record can be given.
NextPdu == op = "boot" /\ Create({CreateCmd(GoodCreate)}, {TRUE}, AllLinks)

SpecPdu == Init /\ [][NextPdu]_vars

\* The notifier on a large registry: n established connections, of which
\* every stride-th is quiet (no completed packets, empty transmit queue).
BatchConns == 2 * NumCompPktsMaxHandles + BatchExtra

BatchConn(h, stride) ==
    [ConnSmInit EXCEPT
        !.conn_state = BLE_LL_CONN_STATE_CREATED,
        !.completed_pkts = IF stride > 0 /\ h % stride = 0 THEN 0 ELSE h % 3,
        !.txq_nonempty = IF stride > 0 /\ h % stride = 0 THEN FALSE
                         ELSE h % 3 = 0]

InitBatch ==
    \E n \in 0..BatchConns, stride \in 0..3 :
        /\ conn = [h \in 0..(BatchConns - 1) |-> BatchConn(h, stride)]
        /\ g_ble_ll_conn_active_list = [i \in 1..n |-> n - i]
        /\ g_ble_ll_conn_free_list = [i \in 1..(BatchConns - n) |-> n + i - 1]
        /\ g_ble_ll_conn_create_sm = NULL
        /\ scan_enabled = FALSE
        /\ os_time = U32(1)
        /\ g_ble_ll_next_num_comp_pkt_evt = U32(0)
        /\ InitGhost

NextBatch ==
    \E avail \in 0..(MaxBufs + 1) :
        /\ op = "boot"
        /\ ble_ll_conn_num_comp_pkts_event_send(avail, 0)

SpecBatch == InitBatch /\ [][NextBatch]_vars

\* ------------------------------------------------------------------------
\* Properties
\* ------------------------------------------------------------------------
\* The command of the last create step, decoded field by field.
LastCreate == hci_create_conn(arg.cmdbuf)

\* The handle and reason of the last disconnect command.
LastHandle == arg.cmdbuf[1] + W8 * arg.cmdbuf[2]

LastReason == arg.cmdbuf[3]

Between(v, lo, hi) == lo <= v /\ v <= hi

\* Validation steps 2 to 7 and 9 of the create connection command, as the
\* specification words them.
Steps2to7Hold(f) ==
    /\ Between(f.scan_itvl, BLE_HCI_SCAN_ITVL_MIN, BLE_HCI_SCAN_ITVL_MAX)
    /\ Between(f.scan_window, BLE_HCI_SCAN_WINDOW_MIN,
               BLE_HCI_SCAN_WINDOW_MAX)
    /\ f.scan_itvl >= f.scan_window
    /\ f.filter_policy <= BLE_HCI_INITIATOR_FILT_POLICY_MAX
    /\ (f.filter_policy = 0 =>
            f.peer_addr_type <= BLE_HCI_CONN_PEER_ADDR_MAX)
    /\ f.own_addr_type <= BLE_HCI_ADV_OWN_ADDR_MAX
    /\ f.conn_itvl_min <= f.conn_itvl_max
    /\ Between(f.conn_itvl_min, BLE_HCI_CONN_ITVL_MIN, BLE_HCI_CONN_ITVL_MAX)
    /\ f.conn_latency <= BLE_HCI_CONN_LATENCY_MAX
    /\ Between(f.supervision_timeout, BLE_HCI_CONN_SPVN_TIMEOUT_MIN,
               BLE_HCI_CONN_SPVN_TIMEOUT_MAX)

Step9Holds(f) == f.min_ce_len <= f.max_ce_len

\* Step 8 in exact integers: timeout * 10000 us does not exceed
\* 2 * conn_itvl_max * 1250 us * (1 + latency).
ExactTmoTooShort(f) ==
    Ex48Le(Ex48Mul(Ex48(f.supervision_timeout), 10000),
           Ex48Mul(Ex48Mul(Ex48Mul(Ex48(f.conn_itvl_max), 2), 1250),
                   1 + f.conn_latency))

\* C1: whenever the pending-creation reference is set, a create connection
\* command (whatever its 25 bytes) returns "command disallowed" and leaves
\* the pending reference, the free pool and the active registry unchanged.
C1_PendingCreateDisallowed ==
    [][(op' = "create" /\ g_ble_ll_conn_create_sm # NULL) =>
            /\ rc' = BLE_ERR_CMD_DISALLOWED
            /\ UNCHANGED <<g_ble_ll_conn_create_sm, g_ble_ll_conn_free_list,
                           g_ble_ll_conn_active_list>>]_vars

\* A valid command was refused while a creation was pending and the scanner
\* was off (so only the pending reference can have refused it).
C1_Witness ==
    /\ op = "create"
    /\ rc = BLE_ERR_CMD_DISALLOWED
    /\ g_ble_ll_conn_create_sm # NULL
    /\ ~scan_enabled
    /\ arg.cmdbuf = CreateCmd(GoodCreate)

\* C2: an invocation of the notifier made less than
\* BLE_LL_NUM_COMP_PKT_RATE ticks after an invocation that sent a report
\* (the same tick included) sends nothing and clears no completed_pkts.
C2_SecondInvocationSilent ==
    [][(/\ op' = "num_comp_pkts"
        /\ hist.report_time # <<>>
        /\ U32Lt(U32Sub(os_time, hist.report_time),
                 U32(BLE_LL_NUM_COMP_PKT_RATE))) =>
            (sent' = <<>> /\ conn' = conn)]_vars

\* C3: a create connection command that passes steps 1 to 7 and whose
\* supervision timeout does not strictly exceed the minimum, computed in
\* exact integers, returns "invalid parameters".
C3_ShortTimeoutRejected ==
    [][(/\ op' = "create"
        /\ g_ble_ll_conn_create_sm = NULL
        /\ ~scan_enabled
        /\ Steps2to7Hold(LastCreate')
        /\ ExactTmoTooShort(LastCreate')) =>
            rc' = BLE_ERR_INV_HCI_CMD_PARMS]_vars

\* C4: when the command allocates a record and the initiator scan start
\* fails, the failure code is returned, the record is back in the free pool
\* (which has its old size) and out of the active registry, and no creation
\* is pending.
C4_ScanFailRollsBack ==
    [][(/\ op' = "create"
        /\ calls'.scan_initiator_start
        /\ arg'.scan_rc # BLE_ERR_SUCCESS) =>
            /\ rc' = arg'.scan_rc
            /\ g_ble_ll_conn_active_list' = g_ble_ll_conn_active_list
            /\ ~InList(g_ble_ll_conn_active_list',
                       Head(g_ble_ll_conn_free_list))
            /\ InList(g_ble_ll_conn_free_list',
                      Head(g_ble_ll_conn_free_list))
            /\ Len(g_ble_ll_conn_free_list') = Len(g_ble_ll_conn_free_list)
            /\ g_ble_ll_conn_create_sm' = NULL]_vars

\* The scan start failed after a record was taken, with an established
\* connection already in the registry.
C4_Witness ==
    /\ op = "create"
    /\ calls.scan_initiator_start
    /\ rc = BLE_ERR_HW_FAIL
    /\ g_ble_ll_conn_active_list # <<>>
    /\ g_ble_ll_conn_free_list # <<>>

\* C5: a create connection command that gets past step 1 and violates a
\* bound of steps 2 to 9 returns "invalid parameters" and changes neither
\* the free pool, the active registry nor the pending reference; nothing is
\* encoded and no scan is started.
C5_InvalidParmsNoEffect ==
    [][(/\ op' = "create"
        /\ g_ble_ll_conn_create_sm = NULL
        /\ ~scan_enabled
        /\ \/ ~Steps2to7Hold(LastCreate')
           \/ ExactTmoTooShort(LastCreate')
           \/ ~Step9Holds(LastCreate')) =>
            /\ rc' = BLE_ERR_INV_HCI_CMD_PARMS
            /\ UNCHANGED <<g_ble_ll_conn_create_sm, g_ble_ll_conn_free_list,
                           g_ble_ll_conn_active_list>>
            /\ ~calls'.req_pdu_make
            /\ ~calls'.scan_initiator_start]_vars

\* C6: cancel returns success exactly when a creation is pending and its
\* record is idle; it then clears the pending reference, stops the scan
\* and ends the record with "unknown connection identifier".  Otherwise it
\* returns "command disallowed" and changes nothing.
C6_CancelOnlyWhileIdle ==
    [][op' = "cancel" =>
            /\ rc' = BLE_ERR_SUCCESS <=>
                   /\ g_ble_ll_conn_create_sm # NULL
                   /\ conn[g_ble_ll_conn_create_sm].conn_state =
                          BLE_LL_CONN_STATE_IDLE
            /\ rc' = BLE_ERR_SUCCESS =>
                   /\ g_ble_ll_conn_create_sm' = NULL
                   /\ ~scan_enabled'
                   /\ calls'.scan_sm_stop
                   /\ calls'.conn_end = g_ble_ll_conn_create_sm
                   /\ calls'.conn_end_reason = BLE_ERR_UNK_CONN_ID
            /\ rc' # BLE_ERR_SUCCESS =>
                   /\ rc' = BLE_ERR_CMD_DISALLOWED
                   /\ calls' = NoCalls
                   /\ UNCHANGED registry]_vars

\* A cancel succeeded: the record it ended is back in the free pool.
C6_Witness ==
    /\ op = "cancel"
    /\ rc = BLE_ERR_SUCCESS
    /\ calls.conn_end # NULL
    /\ InList(g_ble_ll_conn_free_list, calls.conn_end)

\* C7: once a disconnect command has succeeded on a record, every further
\* disconnect command naming it with a legal reason, while it stays
\* active, returns "command disallowed", leaves disconnect_reason as it is
\* and does not start the termination procedure again.
C7_RepeatDisconnectDisallowed ==
    [][(/\ op' = "disconnect"
        /\ LastHandle' <= BLE_LL_CONN_MAX_CONN_HANDLE
        /\ LastReason' \in LegalReasons
        /\ LastHandle' \in hist.disconnected
        /\ InList(g_ble_ll_conn_active_list, LastHandle')) =>
            /\ rc' = BLE_ERR_CMD_DISALLOWED
            /\ conn'[LastHandle'].disconnect_reason =
                   conn[LastHandle'].disconnect_reason
            /\ calls'.terminate_start = NULL]_vars

\* A repeat, with another legal reason than the stored one, was refused.
C7_Witness ==
    /\ op = "disconnect"
    /\ rc = BLE_ERR_CMD_DISALLOWED
    /\ LastHandle \in hist.disconnected
    /\ LastReason \in LegalReasons
    /\ conn[LastHandle].disconnect_reason # LastReason

\* The entries of one number-of-completed-packets event.
ReportCount(r) == r[3]

ReportHandle(r, i) == r[2 + 2 * i] + W8 * r[3 + 2 * i]

\* The eligible records of the active list, in list order.
EligibleHandles ==
    SelectSeq(g_ble_ll_conn_active_list,
              LAMBDA h : /\ conn[h].conn_state # BLE_LL_CONN_STATE_IDLE
                         /\ (conn[h].completed_pkts > 0
                                \/ conn[h].txq_nonempty))

\* The places (report, entry) of the reports where handle h stands.
ReportPlaces(reports, h) ==
    {p \in (1..Len(reports)) \X (1..NumCompPktsMaxHandles) :
        /\ p[2] <= ReportCount(reports[p[1]])
        /\ ReportHandle(reports[p[1]], p[2]) = h}

\* C8: when the rate limit lets the invocation through and no buffer
\* acquisition fails, N eligible records give ceil(N / 60) reports, each of
\* 60 entries except possibly the last, and each eligible handle stands in
\* exactly one place of the reports.
C8_BatchesComplete ==
    [][(/\ op' = "num_comp_pkts"
        /\ ~calls'.rate_limited
        /\ ~calls'.get_failed) =>
            LET N == Len(EligibleHandles)
                k == (N + NumCompPktsMaxHandles - 1)
                         \div NumCompPktsMaxHandles
            IN  /\ Len(sent') = k
                /\ \A i \in 1..(k - 1) :
                       ReportCount(sent'[i]) = NumCompPktsMaxHandles
                /\ k > 0 => ReportCount(sent'[k]) =
                                N - NumCompPktsMaxHandles * (k - 1)
                /\ \A j \in 1..N :
                       Cardinality(ReportPlaces(sent', EligibleHandles[j]))
                           = 1]_vars

\* 61 eligible records gave a report of 60 and a report of 1.
C8_Witness ==
    /\ op = "num_comp_pkts"
    /\ Len(sent) = 2
    /\ ReportCount(sent[1]) = NumCompPktsMaxHandles
    /\ ReportCount(sent[2]) = 1

\* C9: a disconnect command with a reason outside the legal set, or a
\* handle above the maximum, returns "invalid parameters", changes no
\* record and does not start the termination procedure.
C9_BadDisconnectRejected ==
    [][(/\ op' = "disconnect"
        /\ \/ LastReason' \notin LegalReasons
           \/ LastHandle' > BLE_LL_CONN_MAX_CONN_HANDLE) =>
            /\ rc' = BLE_ERR_INV_HCI_CMD_PARMS
            /\ conn' = conn
            /\ calls'.terminate_start = NULL]_vars

\* Reason 0x00 was rejected for the handle of an active record that has no
\* disconnect in progress.
C9_Witness ==
    /\ op = "disconnect"
    /\ rc = BLE_ERR_INV_HCI_CMD_PARMS
    /\ LastReason = 0
    /\ InList(g_ble_ll_conn_active_list, LastHandle)
    /\ conn[LastHandle].disconnect_reason = 0

\* C10: a create connection command that satisfies every bound of steps 2
\* to 9, issued with no creation pending, the scanner off, a free record,
\* the request buffer at hand and a scan start that succeeds, returns
\* success; the head of the free pool moves to the active registry and
\* becomes the pending record.
C10_ValidCreateSucceeds ==
    [][(/\ op' = "create"
        /\ g_ble_ll_conn_create_sm = NULL
        /\ ~scan_enabled
        /\ g_ble_ll_conn_free_list # <<>>
        /\ Steps2to7Hold(LastCreate')
        /\ ~ExactTmoTooShort(LastCreate')
        /\ Step9Holds(LastCreate')
        /\ arg'.pdu_ok
        /\ arg'.scan_rc = BLE_ERR_SUCCESS) =>
            /\ rc' = BLE_ERR_SUCCESS
            /\ g_ble_ll_conn_free_list' = Tail(g_ble_ll_conn_free_list)
            /\ g_ble_ll_conn_active_list' =
                   <<Head(g_ble_ll_conn_free_list)>>
                       \o g_ble_ll_conn_active_list
            /\ g_ble_ll_conn_create_sm' = Head(g_ble_ll_conn_free_list)]_vars

\* C11: no create connection command reaches the encoder's assert(0):
\* with a buffer for the connect request in hand, a create step never
\* stops the controller.
C11_EncoderAssertUnreachable ==
    [][(op' = "create" /\ arg'.pdu_ok) => ~halted']_vars

\* C12: an otherwise valid create connection command whose connect request
\* buffer cannot be had does not stop the controller: it returns an error
\* status, allocates no record and sets no pending reference.
C12_NoPduBufferReturnsError ==
    [][(/\ op' = "create"
        /\ ~arg'.pdu_ok
        /\ ~CreateDisallowed
        /\ Steps2to7Hold(LastCreate') /\ Step9Holds(LastCreate')
        /\ ~ExactTmoTooShort(LastCreate')
        /\ LastCreate'.own_addr_type <= BLE_HCI_ADV_OWN_ADDR_RANDOM
        /\ g_ble_ll_conn_free_list # <<>>) =>
            (/\ ~halted'
             /\ rc' \notin {NULL, BLE_ERR_SUCCESS}
             /\ g_ble_ll_conn_free_list' = g_ble_ll_conn_free_list
             /\ g_ble_ll_conn_active_list' = g_ble_ll_conn_active_list
             /\ g_ble_ll_conn_create_sm' = NULL)]_vars

\* C13: for a hop increment in 0..31 and a sleep clock accuracy class in
\* 0..7 (the value the connection complete event carries in its last
\* byte), the last byte of the connect request is
\* hop_inc + 32 * master_sca.
C13_LastByteSeparatesFields ==
    [][(/\ op' = "create"
        /\ calls'.req_pdu_last # NULL
        /\ arg'.hop_inc \in 0..31
        /\ ConnCompLastByte(arg'.master_sca) \in 0..7) =>
            calls'.req_pdu_last =
                arg'.hop_inc + 32 * ConnCompLastByte(arg'.master_sca)]_vars

\* The pending reference designates an active record that is not free, and
\* no record is on both lists.
PendingRefConsistent ==
    /\ g_ble_ll_conn_create_sm # NULL =>
            /\ g_ble_ll_conn_create_sm \in Handles
            /\ InList(g_ble_ll_conn_active_list, g_ble_ll_conn_create_sm)
            /\ ~InList(g_ble_ll_conn_free_list, g_ble_ll_conn_create_sm)
    /\ \A h \in Handles :
            ~(InList(g_ble_ll_conn_active_list, h)
              /\ InList(g_ble_ll_conn_free_list, h))

\* A step that sets the pending reference is a successful create.
PendingRefSetOnlyByCreate ==
    (g_ble_ll_conn_create_sm' # g_ble_ll_conn_create_sm
     /\ g_ble_ll_conn_create_sm' # NULL) =>
        /\ op' = "create"
        /\ g_ble_ll_conn_create_sm = NULL
        /\ arg'.scan_rc = BLE_ERR_SUCCESS
        /\ rc' = BLE_ERR_SUCCESS

\* C14: the pending-creation reference is set only by a create command
\* that found it unset and whose scan start succeeded; whenever it is set
\* it designates one record, which is in the active registry and not in
\* the free pool; and no record is in the free pool and the active
\* registry at the same time.
C14_PendingRefDesignatesActive ==
    []PendingRefConsistent /\ [][PendingRefSetOnlyByCreate]_vars

\* A second creation is pending while the first connection is established,
\* after an attempt whose scan start failed was rolled back.
C14_Witness ==
    /\ op = "create"
    /\ rc = BLE_ERR_SUCCESS
    /\ g_ble_ll_conn_create_sm # NULL
    /\ Len(g_ble_ll_conn_active_list) = 2
    /\ g_ble_ll_conn_free_list = <<>>
    /\ g_ble_ll_conn_create_sm = 0

\* C15: an invocation of the notifier that sends no report (rate limited,
\* no eligible record, or no buffer for the first entry) leaves the gate
\* unchanged, and only an invocation that sent a report changes it.
C15_GateMovesOnlyOnSend ==
    [][/\ (op' = "num_comp_pkts" /\ sent' = <<>>) =>
            g_ble_ll_next_num_comp_pkt_evt' = g_ble_ll_next_num_comp_pkt_evt
       /\ g_ble_ll_next_num_comp_pkt_evt' # g_ble_ll_next_num_comp_pkt_evt =>
            (op' = "num_comp_pkts" /\ sent' # <<>>)]_vars

\* The rate check passed and a record was eligible, but no buffer could be
\* had, so nothing was sent.
C15_Witness ==
    /\ op = "num_comp_pkts"
    /\ ~calls.rate_limited
    /\ calls.get_failed
    /\ sent = <<>>
    /\ \E h \in Handles : conn[h].completed_pkts > 0

\* C16: every entry of every report sent is for a record that, when the
\* notifier ran, was in the active registry, was not idle and had
\* completed packets or a non-empty transmit queue; a record whose creation
\* is pending, that was rolled back, or that is in the free pool is in no
\* report.
C16_ReportsOnlyEstablished ==
    [][op' = "num_comp_pkts" =>
        \A k \in 1..Len(sent') :
            \A i \in 1..ReportCount(sent'[k]) :
                LET h == ReportHandle(sent'[k], i)
                IN  /\ h \in Handles
                    /\ InList(g_ble_ll_conn_active_list, h)
                    /\ ~InList(g_ble_ll_conn_free_list, h)
                    /\ conn[h].conn_state # BLE_LL_CONN_STATE_IDLE
                    /\ (conn[h].completed_pkts > 0 \/ conn[h].txq_nonempty)
                    /\ ~(/\ h = g_ble_ll_conn_create_sm
                          /\ conn[h].conn_state = BLE_LL_CONN_STATE_IDLE)]_vars

\* A report was sent while another record, its creation pending and still
\* idle, stood in the active registry.
C16_Witness ==
    /\ op = "num_comp_pkts"
    /\ sent # <<>>
    /\ g_ble_ll_conn_create_sm # NULL
    /\ conn[g_ble_ll_conn_create_sm].conn_state = BLE_LL_CONN_STATE_IDLE
    /\ Len(g_ble_ll_conn_active_list) = 2

\* The i-th completed-packets count of report r, read right after its
\* ReportCount(r) handles.
ReportPkts(r, i) ==
    r[2 + 2 * ReportCount(r) + 2 * i] + W8 * r[3 + 2 * ReportCount(r) + 2 * i]

\* C17: a report of N entries (1 <= N <= 60, full or partial) is the event
\* code, the byte 4N + 1, the byte N, the N handles as 16-bit little-endian
\* values in iteration order, and right after them the N counts, the i-th
\* being the completed_pkts its record held before the reset.
C17_ReportLayout ==
    [][op' = "num_comp_pkts" =>
        \A k \in 1..Len(sent') :
            LET r == sent'[k]
                N == ReportCount(r)
            IN  /\ Len(r) = 3 + 4 * N
                /\ r[1] = BLE_HCI_EVCODE_NUM_COMP_PKTS
                /\ r[2] = 4 * N + 1
                /\ N >= 1 /\ N <= 60
                /\ \A b \in 1..Len(r) : r[b] \in 0..(W8 - 1)
                /\ \A i \in 1..N :
                       LET j == 60 * (k - 1) + i
                       IN  /\ j <= Len(EligibleHandles)
                           /\ ReportHandle(r, i) = EligibleHandles[j]
                           /\ ReportPkts(r, i) =
                                  conn[EligibleHandles[j]].completed_pkts]_vars

\* A full report of 60 entries and a partial report of two or more whose
\* second entry carries completed packets.
C17_Witness ==
    /\ op = "num_comp_pkts"
    /\ Len(sent) = 2
    /\ ReportCount(sent[1]) = 60
    /\ ReportCount(sent[2]) >= 2
    /\ ReportPkts(sent[2], 2) > 0
    /\ ReportPkts(sent[1], 60) > 0

\* C18: after a report was sent the gate is the time at which that
\* invocation's rate check passed plus BLE_LL_NUM_COMP_PKT_RATE, also when
\* the tick counter advances before the invocation ends.
C18_GateFromCheckTime ==
    [][(op' = "num_comp_pkts" /\ sent' # <<>>) =>
            g_ble_ll_next_num_comp_pkt_evt' =
                U32Add(os_time, U32(BLE_LL_NUM_COMP_PKT_RATE))]_vars

\* The ticks since the last report, modulo 2^32.
SinceReport == U32Sub(os_time, hist.report_time)

\* C19: the rate check lets through the first invocation after start-up,
\* at any tick (0 included), and every invocation made at least
\* BLE_LL_NUM_COMP_PKT_RATE ticks (exactly that many included) after the
\* last report.
C19_DueInvocationPasses ==
    [][(/\ op' = "num_comp_pkts"
        /\ \/ hist.report_time = <<>>
           \/ ~U32Lt(SinceReport, U32(BLE_LL_NUM_COMP_PKT_RATE))) =>
            ~calls'.rate_limited]_vars

\* The sum of f[lo..hi], by halves.
RECURSIVE SumRange(_, _, _)
SumRange(f, lo, hi) ==
    IF lo > hi THEN 0
    ELSE IF lo = hi THEN f[lo]
    ELSE LET mid == (lo + hi) \div 2
         IN  SumRange(f, lo, mid) + SumRange(f, mid + 1, hi)

\* The credit the reports carry, and the credit a step clears from the
\* records.
CreditReported(reports) ==
    SumRange([k \in 1..Len(reports) |->
                 SumRange([i \in 1..ReportCount(reports[k]) |->
                              ReportPkts(reports[k], i)],
                          1, ReportCount(reports[k]))],
             1, Len(reports))

\* C20: in every invocation, whatever buffer acquisitions fail, a record's
\* completed_pkts is cleared only if its value stands in a report sent by
\* the same invocation, a record in no report keeps its completed_pkts,
\* every buffer acquired is sent once, and the counts in the reports sum to
\* the credit cleared from the records.
C20_CreditConserved ==
    [][op' = "num_comp_pkts" =>
        /\ \A h \in Handles :
               LET places == ReportPlaces(sent', h)
               IN  IF places = {}
                   THEN conn'[h].completed_pkts = conn[h].completed_pkts
                   ELSE /\ Cardinality(places) = 1
                        /\ conn'[h].completed_pkts = 0
                        /\ \A p \in places :
                               ReportPkts(sent'[p[1]], p[2]) =
                                   conn[h].completed_pkts
        /\ calls'.bufs_got = Len(sent')
        /\ CreditReported(sent') =
               SumRange([h \in Handles |-> conn[h].completed_pkts
                                              - conn'[h].completed_pkts],
                        0, Cardinality(Handles) - 1)]_vars

\* A full report went out, the next buffer could not be had, and a record
\* further down the list still holds its credit.
C20_Witness ==
    /\ op = "num_comp_pkts"
    /\ calls.get_failed
    /\ Len(sent) >= 1
    /\ CreditReported(sent) > 0
    /\ \E h \in Handles :
           /\ InList(g_ble_ll_conn_active_list, h)
           /\ conn[h].completed_pkts > 0

====
